---- MODULE Spec2Model ----
(***************************************************************************)
(* Model of the portfolio site's content model: the Content Registry       *)
(* (src/app/resources/content.js), the Post Collection (the MDX files of   *)
(* src/app/blog/posts) and the enumeration that lists the posts by         *)
(* publishedAt, newest first; of the CalendarButton component and of the   *)
(* in-page links of the plain-HTML template (src/template.html).           *)
(*                                                                         *)
(* A publishedAt value is a sequence of one-character strings so that its  *)
(* characters can be compared; every other text is a TLA+ string.          *)
(***************************************************************************)
EXTENDS Integers, Sequences, FiniteSets, TLC

VARIABLES
    registry,   \* the objects content.js exports, as built at module load
    lastRead,   \* what the templates of the current render read last
    pc,         \* post enumeration: "idle", "reading", "sorted" or "error"
    pending,    \* post files of the directory not yet read in this listing
    posts,      \* the BlogPost records read so far, in directory order
    result,     \* the listing returned by the enumeration
    a,          \* left operand of the date comparison under test
    b,          \* right operand of the date comparison under test
    cmp,        \* outcome of the comparison: is a < b as strings, as dates
    dir,        \* the files the posts directory holds
    socialView, \* the social links as the current render shows them
    aboutView,  \* the sections of the About page the current render shows
    mounted,    \* CalendarButton: is the component mounted
    mountCount, \* CalendarButton: how many times it has been mounted
    renderCount,   \* CalendarButton: renders of the current mount
    effectPending, \* CalendarButton: the effect of this mount has yet to run
    calls,      \* the getCalApi calls made so far, one record each
    hash,       \* template.html: the fragment of the location, "" at load
    scrolledTo  \* template.html: the element scrolled to, 0 for none

calVars == <<mounted, mountCount, renderCount, effectPending, calls>>

docVars == <<hash, scrolledTo>>

vars == <<registry, lastRead, pc, pending, posts, result, a, b, cmp,
          dir, socialView, aboutView, calVars, docVars>>

-----------------------------------------------------------------------------
(* Bounds of the model.                                                    *)

\* longest collection handed to the sort in the sorting specification
MaxPosts == 3

\* most files the posts directory holds in the directory specification
MaxDir == 4

\* first year of the dates drawn for the comparison of two dates
BaseYear == 2024

\* number of years, counted from BaseYear, that the compared dates range over
YearSpan == 2

-----------------------------------------------------------------------------
(* Characters and dates.                                                   *)

Digits == <<"0", "1", "2", "3", "4", "5", "6", "7", "8", "9">>

IsDigit(c) == \E i \in 1..10 : Digits[i] = c

DigitVal(c) == (CHOOSE i \in 1..10 : Digits[i] = c) - 1

\* UTF-16 code unit of the characters a publishedAt value is written with
CharCode(c) == IF c = "-" THEN 45 ELSE 48 + DigitVal(c)

\* s < t as strings: code units compared left to right, a proper prefix first
RECURSIVE LexLessFrom(_, _, _)
LexLessFrom(s, t, i) ==
    IF i > Len(t) THEN FALSE
    ELSE IF i > Len(s) THEN TRUE
    ELSE IF CharCode(s[i]) # CharCode(t[i]) THEN CharCode(s[i]) < CharCode(t[i])
    ELSE LexLessFrom(s, t, i + 1)

LexLess(s, t) == LexLessFrom(s, t, 1)

\* the "-"-separated parts of s, left to right
RECURSIVE SplitFrom(_, _, _, _)
SplitFrom(s, i, cur, acc) ==
    IF i > Len(s) THEN Append(acc, cur)
    ELSE IF s[i] = "-" THEN SplitFrom(s, i + 1, <<>>, Append(acc, cur))
    ELSE SplitFrom(s, i + 1, Append(cur, s[i]), acc)

Split(s) == SplitFrom(s, 1, <<>>, <<>>)

IsNumeral(s) == Len(s) > 0 /\ \A i \in 1..Len(s) : IsDigit(s[i])

RECURSIVE NumeralValFrom(_, _, _)
NumeralValFrom(s, i, acc) ==
    IF i > Len(s) THEN acc ELSE NumeralValFrom(s, i + 1, 10 * acc + DigitVal(s[i]))

NumeralVal(s) == NumeralValFrom(s, 1, 0)

IsLeap(y) == (y % 4 = 0 /\ y % 100 # 0) \/ y % 400 = 0

DaysInMonth(y, m) ==
    IF m = 2 THEN (IF IsLeap(y) THEN 29 ELSE 28)
    ELSE IF m \in {4, 6, 9, 11} THEN 30
    ELSE 31

\* s has the shape YYYY-MM-DD: four, two and two digits with "-" between
IsIsoForm(s) ==
    /\ Len(s) = 10
    /\ \A i \in {1, 2, 3, 4, 6, 7, 9, 10} : IsDigit(s[i])
    /\ s[5] = "-"
    /\ s[8] = "-"

\* the date three numerals name; ok is FALSE when they name no calendar day
DateOf(y, m, d) ==
    [ok |-> m \in 1..12 /\ d >= 1 /\ d <= DaysInMonth(y, m), y |-> y, m |-> m, d |-> d]

DateOfParts(parts) ==
    IF Len(parts) # 3 \/ \E i \in 1..3 : ~IsNumeral(parts[i])
    THEN [ok |-> FALSE, y |-> 0, m |-> 0, d |-> 0]
    ELSE DateOf(NumeralVal(parts[1]), NumeralVal(parts[2]), NumeralVal(parts[3]))

\* year, month and day read from a date written as three numerals; ok is
\* FALSE when s has another shape or names no day of the calendar
ParseDate(s) == DateOfParts(Split(s))

IsValidCalendarDate(s) == IsIsoForm(s) /\ ParseDate(s).ok

RECURSIVE DaysBeforeMonth(_, _)
DaysBeforeMonth(y, m) ==
    IF m <= 1 THEN 0 ELSE DaysBeforeMonth(y, m - 1) + DaysInMonth(y, m - 1)

\* the day's number on the calendar, counted from 0001-01-01
DayNumber(y, m, d) ==
    365 * (y - 1) + ((y - 1) \div 4) - ((y - 1) \div 100) + ((y - 1) \div 400)
        + DaysBeforeMonth(y, m) + d

DayNumberOf(p) == IF p.ok THEN DayNumber(p.y, p.m, p.d) ELSE -1

\* the day number of a date, -1 for one that does not parse
DateValue(s) == DayNumberOf(ParseDate(s))

-----------------------------------------------------------------------------
(* The Post Collection: the lines of each MDX file that carry structure.   *)
(* A line is a "---" delimiter, a `key: value` line or other text.         *)

Delim == [kind |-> "delim", key |-> "", value |-> ""]

KV(k, v) == [kind |-> "kv", key |-> k, value |-> v]

Text == [kind |-> "text", key |-> "", value |-> ""]

\* blog.mdx dated the 32nd of January
BlogMdxBadDay == <<
    Delim,
    KV("title", "Building Production-Ready AI Applications: Architecture & Implementation"),
    KV("summary", "Learn to build scalable AI applications with RAG, vector databases, API design, and production deployment strategies for real-world AI systems."),
    KV("publishedAt", <<"2", "0", "2", "5", "-", "0", "1", "-", "3", "2">>),
    KV("tag", "AI Applications"),
    Delim,
    Text,
    \* lines 801..817: the Kubernetes manifests quoted in a code sample
    Text,
    Delim,
    KV("apiVersion", "v1"),
    KV("kind", "Service"),
    Text,
    Delim,
    KV("apiVersion", "autoscaling/v2"),
    KV("kind", "HorizontalPodAutoscaler"),
    Text >>

BlogMdx == <<
    Delim,
    KV("title", "Building Production-Ready AI Applications: Architecture & Implementation"),
    KV("summary", "Learn to build scalable AI applications with RAG, vector databases, API design, and production deployment strategies for real-world AI systems."),
    KV("publishedAt", <<"2", "0", "2", "5", "-", "0", "1", "-", "2", "2">>),
    KV("tag", "AI Applications"),
    Delim,
    Text,
    \* lines 801..817: the Kubernetes manifests quoted in a code sample
    Text,
    Delim,
    KV("apiVersion", "v1"),
    KV("kind", "Service"),
    Text,
    Delim,
    KV("apiVersion", "autoscaling/v2"),
    KV("kind", "HorizontalPodAutoscaler"),
    Text >>

\* design.mdx with its summary left blank
DesignMdxBlankSummary == <<
    Delim,
    KV("title", "Computer Vision and Multimodal AI: Beyond Text Generation"),
    KV("summary", ""),
    KV("publishedAt", <<"2", "0", "2", "5", "-", "0", "2", "-", "0", "2">>),
    KV("tag", "Computer Vision"),
    Delim,
    Text,
    Text >>

DesignMdx == <<
    Delim,
    KV("title", "Computer Vision and Multimodal AI: Beyond Text Generation"),
    KV("summary", "Explore advanced computer vision architectures, multimodal AI systems, and techniques for building AI that understands both visual and textual data."),
    KV("publishedAt", <<"2", "0", "2", "5", "-", "0", "2", "-", "0", "2">>),
    KV("tag", "Computer Vision"),
    Delim,
    Text,
    Text >>

\* quick-start.mdx without the delimiter that opens its first block
QuickStartMdxNoOpening == <<
    KV("title", "AI Engineering Best Practices: From Research to Production"),
    KV("summary", "Essential practices for building robust, scalable AI systems. Learn MLOps, model deployment, monitoring, and production-ready AI engineering workflows."),
    KV("image", "/images/og/home.jpg"),
    KV("publishedAt", <<"2", "0", "2", "5", "-", "0", "1", "-", "1", "5">>),
    KV("tag", "AI Engineering"),
    Delim,
    Text,
    \* lines 178..186: a second block of the same shape inside the body
    Text,
    Delim,
    KV("title", "AI Ethics and Safety: Responsible AI Development"),
    KV("summary", "Essential principles and practices for building ethical AI systems, including bias mitigation, fairness, transparency, and safety considerations."),
    KV("publishedAt", <<"2", "0", "2", "5", "-", "0", "1", "-", "3", "0">>),
    KV("tag", "AI Ethics"),
    Delim,
    Text,
    Text >>

QuickStartMdx == <<
    Delim,
    KV("title", "AI Engineering Best Practices: From Research to Production"),
    KV("summary", "Essential practices for building robust, scalable AI systems. Learn MLOps, model deployment, monitoring, and production-ready AI engineering workflows."),
    KV("image", "/images/og/home.jpg"),
    KV("publishedAt", <<"2", "0", "2", "5", "-", "0", "1", "-", "1", "5">>),
    KV("tag", "AI Engineering"),
    Delim,
    Text,
    \* lines 178..186: a second block of the same shape inside the body
    Text,
    Delim,
    KV("title", "AI Ethics and Safety: Responsible AI Development"),
    KV("summary", "Essential principles and practices for building ethical AI systems, including bias mitigation, fairness, transparency, and safety considerations."),
    KV("publishedAt", <<"2", "0", "2", "5", "-", "0", "1", "-", "3", "0">>),
    KV("tag", "AI Ethics"),
    Delim,
    Text,
    Text >>

\* work.mdx dated 2025-1-18, the month without its leading zero
WorkMdxUnpadded == <<
    Delim,
    KV("title", "LLM Fine-tuning Strategies: From LoRA to Full Parameter Training"),
    KV("summary", "Master the art of fine-tuning large language models. Deep dive into LoRA, QLoRA, full fine-tuning, and advanced techniques for optimal performance."),
    KV("publishedAt", <<"2", "0", "2", "5", "-", "1", "-", "1", "8">>),
    KV("tag", "LLM Engineering"),
    Delim,
    Text,
    Text >>

WorkMdx == <<
    Delim,
    KV("title", "LLM Fine-tuning Strategies: From LoRA to Full Parameter Training"),
    KV("summary", "Master the art of fine-tuning large language models. Deep dive into LoRA, QLoRA, full fine-tuning, and advanced techniques for optimal performance."),
    KV("publishedAt", <<"2", "0", "2", "5", "-", "0", "1", "-", "1", "8">>),
    KV("tag", "LLM Engineering"),
    Delim,
    Text,
    Text >>

\* the post dated 2025-01-28 written 2025-1-28
Part001Unpadded == <<
    Delim,
    KV("title", "Neural Network Optimization: Advanced Techniques for AI Engineers"),
    KV("summary", "Master advanced optimization techniques including adaptive learning rates, gradient scaling, architecture search, and hardware-specific optimizations for neural networks."),
    KV("publishedAt", <<"2", "0", "2", "5", "-", "1", "-", "2", "8">>),
    KV("tag", "Deep Learning"),
    Delim,
    Text,
    Text >>

Part001 == <<
    Delim,
    KV("title", "Neural Network Optimization: Advanced Techniques for AI Engineers"),
    KV("summary", "Master advanced optimization techniques including adaptive learning rates, gradient scaling, architecture search, and hardware-specific optimizations for neural networks."),
    KV("publishedAt", <<"2", "0", "2", "5", "-", "0", "1", "-", "2", "8">>),
    KV("tag", "Deep Learning"),
    Delim,
    Text,
    Text >>

\* the post dated 2025-01-25 given the date of the post of 2025-01-28
Part002SameDay == <<
    Delim,
    KV("title", "Transformer Architectures Deep Dive: From Attention to Modern LLMs"),
    KV("summary", "Comprehensive exploration of transformer architectures, attention mechanisms, positional encoding, and recent innovations like RoPE and FlashAttention."),
    KV("publishedAt", <<"2", "0", "2", "5", "-", "0", "1", "-", "2", "8">>),
    KV("tag", "Deep Learning"),
    Delim,
    Text,
    Text >>

Part002 == <<
    Delim,
    KV("title", "Transformer Architectures Deep Dive: From Attention to Modern LLMs"),
    KV("summary", "Comprehensive exploration of transformer architectures, attention mechanisms, positional encoding, and recent innovations like RoPE and FlashAttention."),
    KV("publishedAt", <<"2", "0", "2", "5", "-", "0", "1", "-", "2", "5">>),
    KV("tag", "Deep Learning"),
    Delim,
    Text,
    Text >>

\* the post dated 2025-01-20 without its tag line
Part003NoTag == <<
    Delim,
    KV("title", "Advanced Prompt Engineering: Beyond Basic Instructions"),
    KV("summary", "Master sophisticated prompt engineering techniques including chain-of-thought, tree-of-thought, and context optimization for maximum LLM performance."),
    KV("publishedAt", <<"2", "0", "2", "5", "-", "0", "1", "-", "2", "0">>),
    Delim,
    Text,
    Text >>

Part003 == <<
    Delim,
    KV("title", "Advanced Prompt Engineering: Beyond Basic Instructions"),
    KV("summary", "Master sophisticated prompt engineering techniques including chain-of-thought, tree-of-thought, and context optimization for maximum LLM performance."),
    KV("publishedAt", <<"2", "0", "2", "5", "-", "0", "1", "-", "2", "0">>),
    KV("tag", "Prompt Engineering"),
    Delim,
    Text,
    Text >>

\* drafts an author may drop into the directory: each lacks one required key
DraftNoTitle == <<
    Delim,
    KV("summary", "A draft without a title."),
    KV("publishedAt", <<"2", "0", "2", "5", "-", "0", "2", "-", "1", "0">>),
    KV("tag", "Draft"),
    Delim,
    Text >>

DraftNoSummary == <<
    Delim,
    KV("title", "A draft without a summary"),
    KV("publishedAt", <<"2", "0", "2", "5", "-", "0", "2", "-", "1", "1">>),
    KV("tag", "Draft"),
    Delim,
    Text >>

DraftNoDate == <<
    Delim,
    KV("title", "A draft without a date"),
    KV("summary", "A draft without a publication date."),
    KV("tag", "Draft"),
    Delim,
    Text >>

\* the files of the posts directory
PostDir == {"blog.mdx", "design.mdx", "quick-start.mdx", "work.mdx",
            "part_001", "part_002", "part_003"}

FileLines(f) ==
    CASE f = "blog.mdx" -> BlogMdx
      [] f = "design.mdx" -> DesignMdx
      [] f = "quick-start.mdx" -> QuickStartMdx
      [] f = "work.mdx" -> WorkMdx
      [] f = "part_001" -> Part001
      [] f = "part_002" -> Part002
      [] f = "part_003" -> Part003
      [] f = "copy-of-design.mdx" -> DesignMdx
      [] f = "draft-no-title.mdx" -> DraftNoTitle
      [] f = "draft-no-summary.mdx" -> DraftNoSummary
      [] f = "draft-no-date.mdx" -> DraftNoDate

-----------------------------------------------------------------------------
(* Reading one file: the front-matter is the block opened by a delimiter   *)
(* on the first line and closed by the next delimiter; the rest is body.   *)

\* index of the first delimiter at or after line i, 0 when there is none
RECURSIVE NextDelim(_, _)
NextDelim(lines, i) ==
    IF i > Len(lines) THEN 0
    ELSE IF lines[i].kind = "delim" THEN i
    ELSE NextDelim(lines, i + 1)

\* the key/value pairs of lines i..j, read top to bottom, a later line
\* of the same key replacing an earlier one
RECURSIVE ReadKeys(_, _, _, _)
ReadKeys(lines, i, j, data) ==
    IF i > j THEN data
    ELSE IF lines[i].kind = "kv"
    THEN ReadKeys(lines, i + 1, j,
                  [k \in DOMAIN data \cup {lines[i].key} |->
                      IF k = lines[i].key THEN lines[i].value ELSE data[k]])
    ELSE ReadKeys(lines, i + 1, j, data)

NoData == [k \in {} |-> ""]

\* the front-matter data of a file and the line its body starts at
FrontMatter(lines) ==
    IF Len(lines) = 0 \/ lines[1].kind # "delim"
    THEN [data |-> NoData, bodyFrom |-> 1]
    ELSE LET close == NextDelim(lines, 2) IN
         IF close = 0
         THEN [data |-> NoData, bodyFrom |-> 1]
         ELSE [data |-> ReadKeys(lines, 2, close - 1, NoData), bodyFrom |-> close + 1]

\* the BlogPost record of one file
ReadMDXFile(f) ==
    LET fm == FrontMatter(FileLines(f)) IN
    [slug |-> f,
     metadata |-> fm.data,
     content |-> SubSeq(FileLines(f), fm.bodyFrom, Len(FileLines(f)))]

-----------------------------------------------------------------------------
(* The Content Registry: the objects content.js builds when it is loaded.  *)
(* JSX fragments are kept as their text; the dash of the work and gallery  *)
(* titles is written "--". A timeframe is kept character by character, as  *)
(* a publishedAt is, so that its months and years can be read.             *)

\* the person literal, for the first and last name written in it
person(fn, ln) ==
    [firstName |-> fn,
     lastName |-> ln,
     role |-> "Software Engineer",
     avatar |-> "/images/avatar.jpg",
     email |-> "kokinedo@gmail.com",
     location |-> "America/New_York",
     languages |-> <<"English">>]

\* name as a plain property holding the text written at load
nameAtLoad(p) == "Kevin Okinedo"

\* the getter `name` of person, evaluated on the object as it is now
name(p) == p.firstName \o " " \o p.lastName

newsletter(p) ==
    [display |-> TRUE,
     title |-> "Subscribe to " \o p.firstName \o "'s Newsletter",
     description |-> "I occasionally write about design, technology, and share thoughts on the intersection of creativity and engineering."]

\* the social list with the icon of the X entry left blank
socialBlankIcon(p) == <<
    [name |-> "GitHub", icon |-> "github", link |-> "https://github.com/kokinedo"],
    [name |-> "LinkedIn", icon |-> "linkedin",
     link |-> "https://www.linkedin.com/in/kevin-okinedo-39538719b/"],
    [name |-> "X", icon |-> "", link |-> ""],
    [name |-> "Email", icon |-> "email", link |-> "mailto:" \o p.email] >>

\* the social list with the link of LinkedIn left empty as well
socialNoLinkedIn(p) == <<
    [name |-> "GitHub", icon |-> "github", link |-> "https://github.com/kokinedo"],
    [name |-> "LinkedIn", icon |-> "linkedin",
     link |-> ""],
    [name |-> "X", icon |-> "x", link |-> ""],
    [name |-> "Email", icon |-> "email", link |-> "mailto:" \o p.email] >>

\* the social list with an address written out in the Email link
socialStaleEmail(p) == <<
    [name |-> "GitHub", icon |-> "github", link |-> "https://github.com/kokinedo"],
    [name |-> "LinkedIn", icon |-> "linkedin",
     link |-> "https://www.linkedin.com/in/kevin-okinedo-39538719b/"],
    [name |-> "X", icon |-> "x", link |-> ""],
    [name |-> "Email", icon |-> "email", link |-> "mailto:kevin@okinedo.dev"] >>

social(p) == <<
    [name |-> "GitHub", icon |-> "github", link |-> "https://github.com/kokinedo"],
    [name |-> "LinkedIn", icon |-> "linkedin",
     link |-> "https://www.linkedin.com/in/kevin-okinedo-39538719b/"],
    [name |-> "X", icon |-> "x", link |-> ""],
    [name |-> "Email", icon |-> "email", link |-> "mailto:" \o p.email] >>

home(p) ==
    [path |-> "/",
     image |-> "/images/og/home.jpg",
     label |-> "Home",
     title |-> name(p) \o "'s Portfolio",
     description |-> "Portfolio website showcasing my work as a " \o p.role,
     headline |-> "Software Engineer",
     featured |-> [display |-> TRUE,
                   title |-> "Recent project: Obaro AI",
                   href |-> "https://obaro.ai/"],
     subline |-> "We partner with forward-thinking companies to unlock AI's transformative potential. Our expertise in enterprise AI strategy, custom LLM development, and intelligent automation helps businesses gain competitive advantage and accelerate growth."]

experiences == <<
        [company |-> "Splunk Inc.",
         timeframe |-> <<"M", "a", "y", " ", "2", "0", "2", "3", " ", "-", " ", "P", "r", "e", "s", "e", "n", "t">>,
         role |-> "Senior Software Engineer",
         achievements |-> <<
              "Revamped the Anomaly application UI using React, integrating LLM-powered insights that enhanced user experience and reduced analysis time by 40%.",
              "Led development of a confidential AI project utilizing LlamaIndex for RAG implementation, building the entire front-end codebase with real-time LLM interaction capabilities.",
              "Implemented advanced MLOps pipelines using TensorFlow and PyTorch for fine-tuning large language models, reducing inference latency by 30% and improving model accuracy by 15%.",
              "Designed scalable Node.js architecture supporting 10,000+ concurrent users with vector database integration for semantic search, achieving 50ms average response times.",
              "Built real-time data processing pipeline using Kafka and Spark for LLM training data preparation, processing 100,000+ events per second for continuous model improvement." >>,
         images |-> <<>>],
        [company |-> "Microsoft Inc.",
         timeframe |-> <<"A", "u", "g", " ", "2", "0", "2", "1", " ", "-", " ", "M", "a", "y", " ", "2", "0", "2", "3">>,
         role |-> "Software Engineer II",
         achievements |-> <<
              "Led development team building AI-enhanced software applications, implementing GPT-3 integration across Microsoft products with 100% on-time delivery record.",
              "Designed ETL pipelines for training data preparation using Python and SQL, optimizing transformer model training workflows and data quality validation.",
              "Enhanced search algorithms with transformer-based semantic understanding, implementing BERT models for natural language query processing and improving search relevance by 35%.",
              "Developed .NET microservices for AI model serving using Azure ML, implementing efficient message queuing with RabbitMQ for distributed inference requests.",
              "Architected data governance solutions on Azure for LLM training datasets, ensuring compliance and implementing automated data lineage tracking for model auditing." >>,
         images |-> <<>>],
        [company |-> "Asset-Map Inc.",
         timeframe |-> <<"J", "a", "n", " ", "2", "0", "2", "0", " ", "-", " ", "J", "u", "l", " ", "2", "0", "2", "1">>,
         role |-> "Software Engineer II",
         achievements |-> <<
              "Enhanced search capabilities using Elasticsearch and Node.js with NLP preprocessing, implementing entity recognition and semantic query expansion to improve search precision by 40%.",
              "Built intelligent URL validation system in Angular using machine learning models, reducing false positives by 60% and cutting support workload by 25%.",
              "Developed Python-based financial simulation engine with natural language interfaces, enabling users to configure complex scenarios through conversational AI, optimizing workflow efficiency.",
              "Spearheaded cloud migration from GCP to AWS, implementing containerized ML model serving with Kubernetes, Aurora databases, and infrastructure-as-code using CloudFormation.",
              "Created intelligent automation scripts using Python and PowerShell with anomaly detection capabilities, reducing manual intervention by 70% through predictive maintenance algorithms." >>,
         images |-> <<>>],
        [company |-> "Kined Systems Inc.",
         timeframe |-> <<"M", "a", "r", " ", "2", "0", "1", "7", " ", "-", " ", "N", "o", "v", " ", "2", "0", "1", "9">>,
         role |-> "Software Engineer",
         achievements |-> <<
              "Developed Golang-based knowledge management platform utilizing early transformer architectures and graph neural networks for intelligent document processing and relationship extraction.",
              "Implemented secure API integration layer using Java for multi-modal data processing, enabling seamless interaction between NLP models and various enterprise databases.",
              "Built knowledge graph platform using Golang, Ruby on Rails, and GraphQL, incorporating word embeddings and entity linking for semantic content organization and retrieval.",
              "Created intelligent data extraction agents using Golang with custom NLP pipelines, implementing named entity recognition and sentiment analysis for automated content processing.",
              "Architected event-driven microservices with Spring Boot and Kafka, designing scalable infrastructure for processing millions of text documents daily with ML-powered content classification." >>,
         images |-> <<>>],
        [company |-> "McKinsey & Company Inc.",
         timeframe |-> <<"A", "p", "r", " ", "2", "0", "1", "5", " ", "-", " ", "F", "e", "b", " ", "2", "0", "1", "7">>,
         role |-> "Full Stack Developer",
         achievements |-> <<
              "Built responsive web applications using React with integrated machine learning components, implementing predictive analytics dashboards for client engagement optimization.",
              "Developed internal applications using React, Angular, and Node.js with embedded ML models for text analysis, enabling automated insight generation from business documents.",
              "Designed RESTful APIs in Java and C# supporting machine learning workflows, implementing efficient data pipelines for training traditional ML models on client datasets.",
              "Enhanced employee learning platforms by implementing recommendation algorithms using Python and scikit-learn, personalizing content delivery and improving engagement by 25%.",
              "Optimized front-end performance through intelligent caching and predictive loading algorithms, achieving 15% performance improvement in data-heavy analytical applications." >>,
         images |-> <<>>] >>

\* the skills with an image attached to the first entry
skillsWithImage == <<
        [title |-> "Frontend Development",
         description |-> "Expert in React, Angular, TypeScript, and modern JavaScript frameworks. Proficient in building responsive, performant user interfaces with advanced state management.",
         images |-> <<[src |-> "/images/projects/project-01/cover-01.jpg", alt |-> "Project image", width |-> 16, height |-> 9]>>],
        [title |-> "Backend Development",
         description |-> "Extensive experience with Node.js, Python, Java, Golang, and C#. Skilled in microservices architecture, API design, and cloud-native application development.",
         images |-> <<>>],
        [title |-> "AI & Machine Learning",
         description |-> "Specialized in LLM fine-tuning, RAG systems, and MLOps. Proficient with TensorFlow, PyTorch, LlamaIndex, and building production-ready AI applications with vector databases.",
         images |-> <<>>],
        [title |-> "Cloud & DevOps",
         description |-> "Experienced with AWS, Azure, GCP, Docker, Kubernetes, and CI/CD pipelines. Expert in scalable infrastructure design and automated deployment strategies.",
         images |-> <<>>] >>

skills == <<
        [title |-> "Frontend Development",
         description |-> "Expert in React, Angular, TypeScript, and modern JavaScript frameworks. Proficient in building responsive, performant user interfaces with advanced state management.",
         images |-> <<>>],
        [title |-> "Backend Development",
         description |-> "Extensive experience with Node.js, Python, Java, Golang, and C#. Skilled in microservices architecture, API design, and cloud-native application development.",
         images |-> <<>>],
        [title |-> "AI & Machine Learning",
         description |-> "Specialized in LLM fine-tuning, RAG systems, and MLOps. Proficient with TensorFlow, PyTorch, LlamaIndex, and building production-ready AI applications with vector databases.",
         images |-> <<>>],
        [title |-> "Cloud & DevOps",
         description |-> "Experienced with AWS, Azure, GCP, Docker, Kubernetes, and CI/CD pipelines. Expert in scalable infrastructure design and automated deployment strategies.",
         images |-> <<>>] >>

about(p) ==
    [path |-> "/about",
     label |-> "About",
     title |-> "About Me",
     description |-> "Meet " \o name(p) \o ", " \o p.role \o " from " \o p.location,
     tableOfContent |-> [display |-> TRUE, subItems |-> FALSE],
     avatar |-> [display |-> TRUE],
     calendar |-> [display |-> TRUE, link |-> "https://cal.com/kevinokinedo/30min"],
     intro |-> [display |-> TRUE,
                title |-> "Introduction",
                description |-> "Kevin is a Atlanta-based software engineer with a passion for building intuitive products powered by AI. His work spans digital interfaces, interactive experiences, and the convergence of design and technology."],
     work |-> [display |-> TRUE,
               title |-> "Work Experience",
               experiences |-> experiences],
     studies |-> [display |-> TRUE,
                  title |-> "Education",
                  institutions |-> <<
                      [name |-> "University of North Georgia",
                       description |-> "Bachelor of Science in Computer Science. Focused on algorithms, data structures, and software engineering principles."] >>],
     technical |-> [display |-> TRUE,
                    title |-> "Technical Skills",
                    skills |-> skills]]

\* blog whose description was left empty
blogNoDescription(p) ==
    [path |-> "/blog",
     label |-> "Blog",
     title |-> "Writing about AI",
     description |-> ""]

\* blog whose description names the person by first name only
blogFirstNameOnly(p) ==
    [path |-> "/blog",
     label |-> "Blog",
     title |-> "Writing about AI",
     description |-> "Read what " \o p.firstName \o " has been up to recently"]

blog(p) ==
    [path |-> "/blog",
     label |-> "Blog",
     title |-> "Writing about AI",
     description |-> "Read what " \o name(p) \o " has been up to recently"]

\* work filed under the path of the blog
workBlogPath(p) ==
    [path |-> "/blog",
     label |-> "Work",
     title |-> "Projects -- " \o name(p),
     description |-> "Design and dev projects by " \o name(p)]

work(p) ==
    [path |-> "/work",
     label |-> "Work",
     title |-> "Projects -- " \o name(p),
     description |-> "Design and dev projects by " \o name(p)]

gallery(p) ==
    [path |-> "/gallery",
     label |-> "Gallery",
     title |-> "Photo gallery -- " \o name(p),
     description |-> "A photo collection by " \o name(p),
     images |-> <<
        [src |-> "/images/gallery/horizontal-1.jpg", alt |-> "image", orientation |-> "horizontal"],
        [src |-> "/images/gallery/horizontal-2.jpg", alt |-> "image", orientation |-> "horizontal"],
        [src |-> "/images/gallery/horizontal-3.jpg", alt |-> "image", orientation |-> "horizontal"],
        [src |-> "/images/gallery/horizontal-4.jpg", alt |-> "image", orientation |-> "horizontal"],
        [src |-> "/images/gallery/vertical-1.jpg", alt |-> "image", orientation |-> "vertical"],
        [src |-> "/images/gallery/vertical-2.jpg", alt |-> "image", orientation |-> "vertical"],
        [src |-> "/images/gallery/vertical-3.jpg", alt |-> "image", orientation |-> "vertical"],
        [src |-> "/images/gallery/vertical-4.jpg", alt |-> "image", orientation |-> "vertical"] >>]

\* the module with the two most recent experiences listed the other way round
LoadOlderFirst(fn, ln) ==
    LET p == person(fn, ln) IN
    [person |-> p,
     social |-> social(p),
     newsletter |-> newsletter(p),
     home |-> home(p),
     about |-> [about(p) EXCEPT !.work.experiences = <<@[2], @[1], @[3], @[4], @[5]>>],
     blog |-> blog(p),
     work |-> work(p),
     gallery |-> gallery(p)]

\* what the module exports once it has been evaluated top to bottom
Load(fn, ln) ==
    LET p == person(fn, ln) IN
    [person |-> p,
     social |-> social(p),
     newsletter |-> newsletter(p),
     home |-> home(p),
     about |-> about(p),
     blog |-> blog(p),
     work |-> work(p),
     gallery |-> gallery(p)]

Sections == {"person", "social", "newsletter", "home", "about", "blog", "work", "gallery"}

-----------------------------------------------------------------------------
(* Listing the posts: read every file of the directory, in whatever order  *)
(* the directory yields them, then sort by publishedAt, newest first.      *)

\* the publishedAt of a post, the empty text when its front-matter has none
PublishedAt(p) ==
    IF "publishedAt" \in DOMAIN p.metadata THEN p.metadata.publishedAt ELSE <<>>

\* the two ways the listing may compare publishedAt values
Modes == {"string", "date"}

NewerDay(dp, dq) == dp >= 0 /\ dq >= 0 /\ dp > dq

\* p is strictly newer than q; a date that does not parse compares as equal
Newer(p, q, mode) ==
    IF mode = "string"
    THEN LexLess(PublishedAt(q), PublishedAt(p))
    ELSE NewerDay(DateValue(PublishedAt(p)), DateValue(PublishedAt(q)))

\* x put before the first element that is not strictly newer than x, so
\* that posts of one date come out in the reverse of the order they went in
RECURSIVE InsertDescTiesFirst(_, _, _)
InsertDescTiesFirst(s, x, mode) ==
    IF s = <<>> THEN <<x>>
    ELSE IF ~Newer(Head(s), x, mode) THEN <<x>> \o s
    ELSE <<Head(s)>> \o InsertDescTiesFirst(Tail(s), x, mode)

\* x put into the sorted s before the first element it is strictly newer than
RECURSIVE InsertDesc(_, _, _)
InsertDesc(s, x, mode) ==
    IF s = <<>> THEN <<x>>
    ELSE IF Newer(x, Head(s), mode) THEN <<x>> \o s
    ELSE <<Head(s)>> \o InsertDesc(Tail(s), x, mode)

\* stable sort, newest first
RECURSIVE SortFrom(_, _, _, _)
SortFrom(s, i, acc, mode) ==
    IF i > Len(s) THEN acc ELSE SortFrom(s, i + 1, InsertDesc(acc, s[i], mode), mode)

\* a sort that starts at the second post and so loses the first
SortDescFromSecond(s, mode) == SortFrom(s, 2, <<>>, mode)

SortDesc(s, mode) == SortFrom(s, 1, <<>>, mode)

NoCmp == [done |-> FALSE, lex |-> FALSE, chrono |-> FALSE]

NoSocialView == [rendered |-> FALSE, policy |-> "", items |-> <<>>]

NoAboutView == [rendered |-> FALSE, shown |-> {}]

NoRead == [section |-> "none", field |-> "", index |-> 0, value |-> ""]

\* CalendarButton before its first mount
NotMounted ==
    /\ mounted = FALSE
    /\ mountCount = 0
    /\ renderCount = 0
    /\ effectPending = FALSE
    /\ calls = <<>>

\* template.html as the browser shows it after loading: no fragment, at the top
DocumentLoaded ==
    /\ hash = ""
    /\ scrolledTo = 0

Init ==
    /\ registry = Load("Kevin", "Okinedo")
    /\ lastRead = NoRead
    /\ pc = "idle"
    /\ pending = {}
    /\ posts = <<>>
    /\ result = <<>>
    /\ a = <<>>
    /\ b = <<>>
    /\ cmp = NoCmp
    /\ dir = PostDir
    /\ socialView = NoSocialView
    /\ aboutView = NoAboutView
    /\ NotMounted
    /\ DocumentLoaded

\* a render of the blog page begins: the directory is read
StartListing ==
    /\ pc \in {"idle", "sorted", "error"}
    /\ pc' = "reading"
    /\ pending' = dir
    /\ posts' = <<>>
    /\ result' = <<>>
    /\ lastRead' = NoRead
    /\ socialView' = NoSocialView
    /\ aboutView' = NoAboutView
    /\ UNCHANGED <<registry, a, b, cmp, dir, calVars, docVars>>

\* the front-matter keys a post cannot do without
RequiredKeys == {"title", "summary", "publishedAt"}

\* a check that lets every post through
HasRequiredUnchecked(p) == TRUE

\* the post lacks none of the required keys
HasRequired(p) == RequiredKeys \subseteq DOMAIN p.metadata

\* the next file of the directory is read and parsed; a file that lacks a
\* required key ends the listing in an error
ReadFile ==
    /\ pc = "reading"
    /\ \E f \in pending :
        IF HasRequired(ReadMDXFile(f))
        THEN /\ posts' = Append(posts, ReadMDXFile(f))
             /\ pending' = pending \ {f}
             /\ pc' = pc
        ELSE /\ posts' = <<>>
             /\ pending' = {}
             /\ pc' = "error"
    /\ UNCHANGED <<registry, lastRead, result, a, b, cmp, dir, socialView, aboutView, calVars, docVars>>

\* every file is read: the array is sorted in place and returned
SortPosts ==
    /\ pc = "reading"
    /\ pending = {}
    /\ \E mode \in Modes :
        /\ posts' = SortDesc(posts, mode)
        /\ result' = posts'
    /\ pc' = "sorted"
    /\ UNCHANGED <<registry, lastRead, pending, a, b, cmp, dir, socialView, aboutView, calVars, docVars>>

PersonFields == {"firstName", "lastName", "name", "role", "avatar", "email", "location"}

SocialFields == {"name", "icon", "link"}

PageFields(s) == IF s = "newsletter" THEN {"title", "description"}
                 ELSE {"path", "label", "title", "description"}

\* a getter that keeps what it built in firstName
AfterGetNameStoring(reg) == [reg EXCEPT !.person.firstName = name(reg.person)]

\* the registry once the getter `name` has run: the getter builds a string
\* and assigns nothing
AfterGetName(reg) == reg

\* a template reads a field of person; `name` runs the getter
ReadPerson ==
    /\ pc # "reading"
    /\ \E f \in PersonFields :
        /\ lastRead' = [section |-> "person", field |-> f, index |-> 0,
                        value |-> IF f = "name" THEN name(registry.person)
                                  ELSE registry.person[f]]
        /\ registry' = IF f = "name" THEN AfterGetName(registry) ELSE registry
    /\ UNCHANGED <<pc, pending, posts, result, a, b, cmp, dir, socialView, aboutView, calVars, docVars>>

\* a template reads a field of one entry of the social list
ReadSocial ==
    /\ pc # "reading"
    /\ \E i \in 1..Len(registry.social), f \in SocialFields :
        lastRead' = [section |-> "social", field |-> f, index |-> i,
                     value |-> registry.social[i][f]]
    /\ UNCHANGED <<registry, pc, pending, posts, result, a, b, cmp, dir, socialView, aboutView, calVars, docVars>>

ExperienceFields == {"company", "timeframe", "role", "images"}

\* a template reads a field of one entry of the work experience
ReadExperience ==
    /\ pc # "reading"
    /\ \E i \in 1..Len(registry.about.work.experiences), f \in ExperienceFields :
        lastRead' = [section |-> "about.work.experiences", field |-> f, index |-> i,
                     value |-> registry.about.work.experiences[i][f]]
    /\ UNCHANGED <<registry, pc, pending, posts, result, a, b, cmp, dir, socialView, aboutView, calVars, docVars>>

SkillFields == {"title", "images"}

\* a template reads a field of one entry of the technical skills
ReadSkill ==
    /\ pc # "reading"
    /\ \E i \in 1..Len(registry.about.technical.skills), f \in SkillFields :
        lastRead' = [section |-> "about.technical.skills", field |-> f, index |-> i,
                     value |-> registry.about.technical.skills[i][f]]
    /\ UNCHANGED <<registry, pc, pending, posts, result, a, b, cmp, dir, socialView, aboutView, calVars, docVars>>

\* what the page does with a social entry whose link is empty
EmptyLinkPolicies == {"omit", "disable"}

\* the links shown for the entries from the i-th on: an entry with a link is
\* an active link, one without is left out or shown disabled, as policy says
RECURSIVE SocialItemsFrom(_, _, _)
SocialItemsFrom(list, i, policy) ==
    IF i > Len(list) THEN <<>>
    ELSE IF list[i].link # ""
    THEN <<[name |-> list[i].name, icon |-> list[i].icon, href |-> list[i].link,
            state |-> "active"]>> \o SocialItemsFrom(list, i + 1, policy)
    ELSE IF policy = "omit" THEN SocialItemsFrom(list, i + 1, policy)
    ELSE <<[name |-> list[i].name, icon |-> list[i].icon, href |-> "",
            state |-> "disabled"]>> \o SocialItemsFrom(list, i + 1, policy)

\* a template renders the social links under one policy for empty links
RenderSocial ==
    /\ pc # "reading"
    /\ \E policy \in EmptyLinkPolicies :
        socialView' = [rendered |-> TRUE, policy |-> policy,
                       items |-> SocialItemsFrom(registry.social, 1, policy)]
    /\ UNCHANGED <<registry, lastRead, pc, pending, posts, result, a, b, cmp, dir, aboutView, calVars, docVars>>

\* the parts of the About page that carry a display flag
AboutFlags == {"tableOfContent", "avatar", "calendar", "intro", "work", "studies", "technical"}

\* every part of the About page drawn by the flag of the work section
SectionShownByWork(ab, s) == ab.work.display

\* the About page shows a part exactly when that part's display flag is on
SectionShown(ab, s) == ab[s].display

\* the About page is rendered from the flags as they are now
RenderAbout ==
    /\ pc # "reading"
    /\ aboutView' = [rendered |-> TRUE,
                     shown |-> {s \in AboutFlags : SectionShown(registry.about, s)}]
    /\ UNCHANGED <<registry, lastRead, pc, pending, posts, result, a, b, cmp, dir, socialView, calVars, docVars>>

\* a template reads a field of a page's metadata
ReadPage ==
    /\ pc # "reading"
    /\ \E s \in Sections \ {"person", "social"} : \E f \in PageFields(s) :
        lastRead' = [section |-> s, field |-> f, index |-> 0,
                     value |-> registry[s][f]]
    /\ UNCHANGED <<registry, pc, pending, posts, result, a, b, cmp, dir, socialView, aboutView, calVars, docVars>>

Next ==
    \/ StartListing
    \/ ReadFile
    \/ SortPosts
    \/ ReadPerson
    \/ ReadSocial
    \/ ReadExperience
    \/ ReadSkill
    \/ ReadPage
    \/ RenderSocial
    \/ RenderAbout

Spec == Init /\ [][Next]_vars

-----------------------------------------------------------------------------
(* Comparing two publishedAt values, as strings and as calendar dates.     *)

Pad2(n) == <<Digits[(n \div 10) + 1], Digits[(n % 10) + 1]>>

Pad4(n) == Pad2(n \div 100) \o Pad2(n % 100)

\* a calendar day written the way the post files write publishedAt
IsoDate(y, m, d) == Pad4(y) \o <<"-">> \o Pad2(m) \o <<"-">> \o Pad2(d)

\* the publishedAt values the files of the directory carry
PostDates == {PublishedAt(ReadMDXFile(f)) : f \in PostDir}

\* the days of a month where the written form changes length or the month ends
BoundaryDays(y, m) == {1, 9, 10, DaysInMonth(y, m)}

DateInputs ==
    PostDates \cup
    UNION {UNION {{IsoDate(y, m, d) : d \in BoundaryDays(y, m)} : m \in 1..12} :
           y \in BaseYear..(BaseYear + YearSpan - 1)}

\* the posts of the directory, read in the order of their names
CollectionInOrder ==
    <<ReadMDXFile("blog.mdx"), ReadMDXFile("design.mdx"), ReadMDXFile("part_001"),
      ReadMDXFile("part_002"), ReadMDXFile("part_003"),
      ReadMDXFile("quick-start.mdx"), ReadMDXFile("work.mdx")>>

InitDates ==
    /\ registry = Load("Kevin", "Okinedo")
    /\ lastRead = NoRead
    /\ pc = "idle"
    /\ pending = {}
    /\ posts = <<>>
    /\ result = <<>>
    /\ a = <<>>
    /\ b = <<>>
    /\ cmp = NoCmp
    /\ dir = PostDir
    /\ socialView = NoSocialView
    /\ aboutView = NoAboutView
    /\ NotMounted
    /\ DocumentLoaded

\* the collection sorted both ways: posts by the string, result by the date
SortBothWays ==
    /\ pc = "idle"
    /\ posts' = SortDesc(CollectionInOrder, "string")
    /\ result' = SortDesc(CollectionInOrder, "date")
    /\ pc' = "sorted"
    /\ UNCHANGED <<registry, lastRead, pending, a, b, cmp, dir, socialView, aboutView, calVars, docVars>>

\* two dates are taken for comparison
PickDates ==
    /\ pc = "sorted"
    /\ a = <<>>
    /\ \E x \in DateInputs, y \in DateInputs :
        /\ a' = x
        /\ b' = y
    /\ UNCHANGED <<registry, lastRead, pc, pending, posts, result, cmp, dir, socialView, aboutView, calVars, docVars>>

\* a < b, once as strings and once as calendar dates
CompareDates ==
    /\ a # <<>>
    /\ ~cmp.done
    /\ cmp' = [done |-> TRUE, lex |-> LexLess(a, b), chrono |-> DateValue(a) < DateValue(b)]
    /\ UNCHANGED <<registry, lastRead, pc, pending, posts, result, a, b, dir, socialView, aboutView, calVars, docVars>>

NextDates ==
    \/ SortBothWays
    \/ PickDates
    \/ CompareDates

SpecDates == InitDates /\ [][NextDates]_vars

-----------------------------------------------------------------------------
(* Sorting any small collection, dates shared between posts included.      *)

\* a second file with the front-matter of f
CopyOf(f) == [ReadMDXFile(f) EXCEPT !.slug = "copy-of-" \o f]

SamplePosts ==
    {ReadMDXFile("design.mdx"), ReadMDXFile("quick-start.mdx"), ReadMDXFile("work.mdx"),
     CopyOf("design.mdx"), CopyOf("work.mdx")}

Collections == UNION {[1..n -> SamplePosts] : n \in 0..MaxPosts}

InitSort ==
    /\ registry = Load("Kevin", "Okinedo")
    /\ lastRead = NoRead
    /\ pc = "reading"
    /\ pending = {}
    /\ posts \in Collections
    /\ result = <<>>
    /\ a = <<>>
    /\ b = <<>>
    /\ cmp = NoCmp
    /\ dir = PostDir
    /\ socialView = NoSocialView
    /\ aboutView = NoAboutView
    /\ NotMounted
    /\ DocumentLoaded

\* the returned listing is sorted once more
SortAgain ==
    /\ pc = "sorted"
    /\ \E mode \in Modes :
        /\ posts' = SortDesc(result, mode)
        /\ result' = posts'
    /\ pc' = "resorted"
    /\ UNCHANGED <<registry, lastRead, pending, a, b, cmp, dir, socialView, aboutView, calVars, docVars>>

NextSort ==
    \/ SortPosts
    \/ SortAgain

SpecSort == InitSort /\ [][NextSort]_vars

-----------------------------------------------------------------------------
(* The name getter on a person whose names are written and rewritten.      *)

FirstNames == {"Kevin", "Ada", "K", ""}

LastNames == {"Okinedo", "Lovelace", ""}

InitGetter ==
    /\ \E fn \in FirstNames, ln \in LastNames : registry = Load(fn, ln)
    /\ lastRead = NoRead
    /\ pc = "idle"
    /\ pending = {}
    /\ posts = <<>>
    /\ result = <<>>
    /\ a = <<>>
    /\ b = <<>>
    /\ cmp = NoCmp
    /\ dir = PostDir
    /\ socialView = NoSocialView
    /\ aboutView = NoAboutView
    /\ NotMounted
    /\ DocumentLoaded

\* person.firstName is assigned; what a template read before is stale
AssignFirstName ==
    /\ \E v \in FirstNames : registry' = [registry EXCEPT !.person.firstName = v]
    /\ lastRead' = NoRead
    /\ UNCHANGED <<pc, pending, posts, result, a, b, cmp, dir, socialView, aboutView, calVars, docVars>>

\* person.lastName is assigned; what a template read before is stale
AssignLastName ==
    /\ \E v \in LastNames : registry' = [registry EXCEPT !.person.lastName = v]
    /\ lastRead' = NoRead
    /\ UNCHANGED <<pc, pending, posts, result, a, b, cmp, dir, socialView, aboutView, calVars, docVars>>

NextGetter ==
    \/ AssignFirstName
    \/ AssignLastName
    \/ ReadPerson

SpecGetter == InitGetter /\ [][NextGetter]_vars

-----------------------------------------------------------------------------
(* The posts directory as files are added to it and removed from it.       *)

\* the files that may be put into the directory
DirUniverse ==
    {"design.mdx", "work.mdx", "quick-start.mdx", "part_001", "copy-of-design.mdx",
     "draft-no-title.mdx", "draft-no-summary.mdx", "draft-no-date.mdx"}

InitDir ==
    /\ registry = Load("Kevin", "Okinedo")
    /\ lastRead = NoRead
    /\ pc = "idle"
    /\ pending = {}
    /\ posts = <<>>
    /\ result = <<>>
    /\ a = <<>>
    /\ b = <<>>
    /\ cmp = NoCmp
    /\ dir = {}
    /\ socialView = NoSocialView
    /\ aboutView = NoAboutView
    /\ NotMounted
    /\ DocumentLoaded

\* a post is created by adding its file; the listing made before is void
AddFile ==
    /\ pc # "reading"
    /\ Cardinality(dir) < MaxDir
    /\ \E f \in DirUniverse \ dir : dir' = dir \cup {f}
    /\ pc' = "idle"
    /\ pending' = {}
    /\ posts' = <<>>
    /\ result' = <<>>
    /\ UNCHANGED <<registry, lastRead, a, b, cmp, socialView, aboutView, calVars, docVars>>

\* a post is destroyed by removing its file; the listing made before is void
RemoveFile ==
    /\ pc # "reading"
    /\ \E f \in dir : dir' = dir \ {f}
    /\ pc' = "idle"
    /\ pending' = {}
    /\ posts' = <<>>
    /\ result' = <<>>
    /\ UNCHANGED <<registry, lastRead, a, b, cmp, socialView, aboutView, calVars, docVars>>

NextDir ==
    \/ AddFile
    \/ RemoveFile
    \/ StartListing
    \/ ReadFile
    \/ SortPosts

SpecDir == InitDir /\ [][NextDir]_vars

\* ---- the About page under edits of its display flags ----
\* The site owner edits content.js ("set to false to hide this section") and
\* the page is rendered again from the edited module.

InitAbout == Init

\* the owner sets the display flag of one part of the About page
SetDisplay ==
    /\ \E s \in AboutFlags, v \in BOOLEAN :
        /\ registry.about[s].display # v
        /\ registry' = [registry EXCEPT !.about[s].display = v]
    /\ aboutView' = NoAboutView
    /\ UNCHANGED <<lastRead, pc, pending, posts, result, a, b, cmp, dir, socialView, calVars, docVars>>

NextAbout ==
    \/ SetDisplay
    \/ RenderAbout

SpecAbout == InitAbout /\ [][NextAbout]_vars

-----------------------------------------------------------------------------
(* CalendarButton: a component that, in an effect run once per mount,      *)
(* awaits getCalApi and then configures the embed with cal("ui", ...).     *)

MaxMounts == 2

MaxRenders == 2

siteVars == <<registry, lastRead, pc, pending, posts, result, a, b, cmp,
              dir, socialView, aboutView>>

\* the argument of getCalApi
GetCalApiOptions == [namespace |-> "30min"]

\* the arguments of cal("ui", ...)
UiOptions == [hideEventTypeDetails |-> FALSE, layout |-> "month_view"]

\* the element with the link of another event type
CalendarButtonElementOtherLink ==
    [dataCalNamespace |-> "30min",
     dataCalLink |-> "kevinokinedo/15min",
     dataCalConfig |-> "{'layout':'month_view'}"]

\* the data-cal attributes of the element the component renders
CalendarButtonElement ==
    [dataCalNamespace |-> "30min",
     dataCalLink |-> "kevinokinedo/30min",
     dataCalConfig |-> "{'layout':'month_view'}"]

\* an effect without a dependency list runs after every render
EffectRunsAfterEveryRender(render) == TRUE

\* the dependency list is empty: the effect runs after the first render of
\* a mount only
EffectRunsAfter(render) == render = 1

\* a cleanup that abandons the calls still awaited when the component goes
AfterCleanupAbandoning(cs) ==
    [k \in 1..Len(cs) |->
        IF cs[k].promise = "pending" THEN [cs[k] EXCEPT !.promise = "abandoned"]
        ELSE cs[k]]

\* the effect returns no cleanup: unmounting leaves the calls as they are
AfterCleanup(cs) == cs

\* is the component instance that made the k-th call still mounted
Live(k) == mounted /\ calls[k].mount = mountCount

\* the component is mounted and rendered for the first time
Mount ==
    /\ ~mounted
    /\ mountCount < MaxMounts
    /\ mounted' = TRUE
    /\ mountCount' = mountCount + 1
    /\ renderCount' = 1
    /\ effectPending' = EffectRunsAfter(1)
    /\ UNCHANGED <<calls, siteVars, docVars>>

\* the effect runs: the async function calls getCalApi and waits for it
RunEffect ==
    /\ mounted
    /\ effectPending
    /\ effectPending' = FALSE
    /\ calls' = Append(calls, [mount |-> mountCount,
                               namespace |-> GetCalApiOptions.namespace,
                               promise |-> "pending",
                               settledLive |-> TRUE,
                               at |-> "await",
                               ui |-> <<>>])
    /\ UNCHANGED <<mounted, mountCount, renderCount, siteVars, docVars>>

\* the mounted component renders again (new props from its parent)
Rerender ==
    /\ mounted
    /\ ~effectPending
    /\ renderCount < MaxRenders
    /\ renderCount' = renderCount + 1
    /\ effectPending' = EffectRunsAfter(renderCount')
    /\ UNCHANGED <<mounted, mountCount, calls, siteVars, docVars>>

\* the component is unmounted
Unmount ==
    /\ mounted
    /\ ~effectPending
    /\ mounted' = FALSE
    /\ renderCount' = 0
    /\ calls' = AfterCleanup(calls)
    /\ UNCHANGED <<mountCount, effectPending, siteVars, docVars>>

\* the embed library loads: the promise of a getCalApi call resolves
ResolveCalApi ==
    /\ \E k \in 1..Len(calls) :
        /\ calls[k].promise = "pending"
        /\ calls' = [calls EXCEPT ![k].promise = "resolved",
                                  ![k].settledLive = Live(k)]
    /\ UNCHANGED <<mounted, mountCount, renderCount, effectPending, siteVars, docVars>>

\* the embed library fails to load: the promise of a getCalApi call rejects
RejectCalApi ==
    /\ \E k \in 1..Len(calls) :
        /\ calls[k].promise = "pending"
        /\ calls' = [calls EXCEPT ![k].promise = "rejected",
                                  ![k].settledLive = Live(k)]
    /\ UNCHANGED <<mounted, mountCount, renderCount, effectPending, siteVars, docVars>>

\* the async function resumes after the await and calls cal("ui", ...)
ResumeAfterAwait ==
    /\ \E k \in 1..Len(calls) :
        /\ calls[k].at = "await"
        /\ calls[k].promise = "resolved"
        /\ calls' = [calls EXCEPT
                        ![k].at = "end",
                        ![k].ui = Append(@, [args |-> UiOptions, live |-> Live(k)])]
    /\ UNCHANGED <<mounted, mountCount, renderCount, effectPending, siteVars, docVars>>

\* the await throws the rejection: the async function ends without the call
ThrowAfterAwait ==
    /\ \E k \in 1..Len(calls) :
        /\ calls[k].at = "await"
        /\ calls[k].promise = "rejected"
        /\ calls' = [calls EXCEPT ![k].at = "threw"]
    /\ UNCHANGED <<mounted, mountCount, renderCount, effectPending, siteVars, docVars>>

InitCalendar == Init

NextCalendar ==
    \/ Mount
    \/ RunEffect
    \/ Rerender
    \/ Unmount
    \/ ResolveCalApi
    \/ RejectCalApi
    \/ ResumeAfterAwait
    \/ ThrowAfterAwait

\* the runtime runs a pending effect and a continuation that is ready
SpecCalendar ==
    /\ InitCalendar
    /\ [][NextCalendar]_vars
    /\ WF_vars(RunEffect)
    /\ WF_vars(ResumeAfterAwait)

-----------------------------------------------------------------------------
(* The plain-HTML template: the elements of src/template.html that carry   *)
(* an id, a link or the name of the owner, in document order, and what the *)
(* browser does when a link of the page is followed.  An href is a         *)
(* sequence of one-character strings so that its first character can be    *)
(* told apart.                                                             *)

\* template.html, head: the title of the document
HeadSection == <<
    [line |-> 11, tag |-> "title", id |-> "",
     class |-> "",
     text |-> "Kevin Okinedo",
     href |-> <<>>] >>

\* the hero whose Know More link names a section the document lacks
HeroSectionLinkingToIntro == <<
    [line |-> 28, tag |-> "div", id |-> "top",
     class |-> "",
     text |-> "",
     href |-> <<>>],
    [line |-> 31, tag |-> "div", id |-> "hero",
     class |-> "jumbotron",
     text |-> "",
     href |-> <<>>],
    [line |-> 34, tag |-> "span", id |-> "",
     class |-> "text-color-main",
     text |-> "Kevin Okinedo",
     href |-> <<>>],
    [line |-> 39, tag |-> "a", id |-> "",
     class |-> "cta-btn cta-btn--hero",
     text |-> "Know More",
     href |-> <<"#", "i", "n", "t", "r", "o">>] >>

\* template.html, top marker and hero: the elements that carry an id, a link
\* or the name; an element without href has the empty href
HeroSection == <<
    [line |-> 28, tag |-> "div", id |-> "top",
     class |-> "",
     text |-> "",
     href |-> <<>>],
    [line |-> 31, tag |-> "div", id |-> "hero",
     class |-> "jumbotron",
     text |-> "",
     href |-> <<>>],
    [line |-> 34, tag |-> "span", id |-> "",
     class |-> "text-color-main",
     text |-> "Kevin Okinedo",
     href |-> <<>>],
    [line |-> 39, tag |-> "a", id |-> "",
     class |-> "cta-btn cta-btn--hero",
     text |-> "Know More",
     href |-> <<"#", "a", "b", "o", "u", "t">>] >>

\* template.html, about section
AboutSection == <<
    [line |-> 46, tag |-> "section", id |-> "about",
     class |-> "",
     text |-> "",
     href |-> <<>>],
    [line |-> 66, tag |-> "a", id |-> "",
     class |-> "cta-btn cta-btn--resume",
     text |-> "View Resume",
     href |-> <<"h", "t", "t", "p", "s", ":", "/", "/", "d", "o", "c", "s",
                 ".", "g", "o", "o", "g", "l", "e", ".", "c", "o", "m", "/",
                 "d", "o", "c", "u", "m", "e", "n", "t", "/", "d", "/", "1",
                 "Z", "p", "J", "v", "8", "b", "j", "V", "B", "C", "M", "T",
                 "Y", "b", "I", "M", "u", "y", "o", "k", "h", "l", "X", "b",
                 "L", "r", "a", "z", "O", "y", "p", "5", "/", "e", "d", "i",
                 "t", "?", "u", "s", "p", "=", "s", "h", "a", "r", "i", "n",
                 "g", "&", "o", "u", "i", "d", "=", "1", "0", "4", "1", "8",
                 "2", "8", "0", "2", "4", "1", "7", "2", "5", "6", "7", "4",
                 "9", "8", "9", "5", "&", "r", "t", "p", "o", "f", "=", "t",
                 "r", "u", "e", "&", "s", "d", "=", "t", "r", "u", "e">>] >>

\* template.html, projects section
ProjectsSection == <<
    [line |-> 78, tag |-> "section", id |-> "projects",
     class |-> "",
     text |-> "",
     href |-> <<>>],
    [line |-> 95, tag |-> "a", id |-> "",
     class |-> "cta-btn cta-btn--hero",
     text |-> "See Live",
     href |-> <<"h", "t", "t", "p", "s", ":", "/", "/", "c", "h", "a", "t",
                 "-", "a", "p", "p", "-", "k", "o", "k", "i", "n", "e", "d",
                 "o", ".", "n", "e", "t", "l", "i", "f", "y", ".", "a", "p",
                 "p">>],
    [line |-> 98, tag |-> "a", id |-> "",
     class |-> "cta-btn text-color-main",
     text |-> "Source Code",
     href |-> <<"h", "t", "t", "p", "s", ":", "/", "/", "g", "i", "t", "h",
                 "u", "b", ".", "c", "o", "m", "/", "k", "o", "k", "i", "n",
                 "e", "d", "o", "/", "c", "h", "a", "t", "-", "a", "p", "p">>],
    [line |-> 122, tag |-> "a", id |-> "",
     class |-> "cta-btn cta-btn--hero",
     text |-> "See Live",
     href |-> <<"h", "t", "t", "p", "s", ":", "/", "/", "k", "o", "k", "i",
                 "n", "e", "d", "o", ".", "g", "i", "t", "h", "u", "b", ".",
                 "i", "o", "/", "c", "r", "y", "p", "t", "o", "-", "t", "r",
                 "a", "c", "k", "e", "r", "/">>],
    [line |-> 125, tag |-> "a", id |-> "",
     class |-> "cta-btn text-color-main",
     text |-> "Source Code",
     href |-> <<"h", "t", "t", "p", "s", ":", "/", "/", "g", "i", "t", "h",
                 "u", "b", ".", "c", "o", "m", "/", "k", "o", "k", "i", "n",
                 "e", "d", "o", "/", "c", "r", "y", "p", "t", "o", "-", "t",
                 "r", "a", "c", "k", "e", "r">>],
    [line |-> 150, tag |-> "a", id |-> "",
     class |-> "cta-btn cta-btn--hero",
     text |-> "Coming Soon",
     href |-> <<>>],
    [line |-> 153, tag |-> "a", id |-> "",
     class |-> "cta-btn text-color-main",
     text |-> "Source Code",
     href |-> <<"h", "t", "t", "p", "s", ":", "/", "/", "g", "i", "t", "h",
                 "u", "b", ".", "c", "o", "m", "/", "k", "o", "k", "i", "n",
                 "e", "d", "o", "/", "a", "l", "p", "h", "a", "b", "e", "t",
                 "_", "q", "u", "i", "z">>] >>

\* the contact section with another address behind Contact Me
ContactSectionOtherAddress == <<
    [line |-> 173, tag |-> "section", id |-> "contact",
     class |-> "",
     text |-> "",
     href |-> <<>>],
    [line |-> 182, tag |-> "a", id |-> "",
     class |-> "cta-btn cta-btn--resume",
     text |-> "Contact Me",
     href |-> <<"m", "a", "i", "l", "t", "o", ":", "k", "e", "v", "i", "n",
                 "@", "o", "k", "i", "n", "e", "d", "o", ".", "d", "e", "v">>] >>

\* template.html, contact section
ContactSection == <<
    [line |-> 173, tag |-> "section", id |-> "contact",
     class |-> "",
     text |-> "",
     href |-> <<>>],
    [line |-> 182, tag |-> "a", id |-> "",
     class |-> "cta-btn cta-btn--resume",
     text |-> "Contact Me",
     href |-> <<"m", "a", "i", "l", "t", "o", ":", "k", "o", "k", "i", "n",
                 "e", "d", "o", "@", "g", "m", "a", "i", "l", ".", "c", "o",
                 "m">>] >>

\* template.html, footer: back-to-top link, social links (class of the icon
\* inside each), closing credit
FooterSection == <<
    [line |-> 191, tag |-> "a", id |-> "",
     class |-> "back-to-top",
     text |-> "",
     href |-> <<"#", "t", "o", "p">>],
    [line |-> 195, tag |-> "a", id |-> "",
     class |-> "fa fa-twitter fa-inverse",
     text |-> "",
     href |-> <<"h", "t", "t", "p", "s", ":", "/", "/", "t", "w", "i", "t",
                 "t", "e", "r", ".", "c", "o", "m", "/", "K", "e", "v", "i",
                 "n", "O", "k", "i", "n", "e", "d", "o">>],
    [line |-> 198, tag |-> "a", id |-> "",
     class |-> "fa fa-linkedin fa-inverse",
     text |-> "",
     href |-> <<"h", "t", "t", "p", "s", ":", "/", "/", "w", "w", "w", ".",
                 "l", "i", "n", "k", "e", "d", "i", "n", ".", "c", "o", "m",
                 "/", "i", "n", "/", "k", "e", "v", "i", "n", "-", "o", "k",
                 "i", "n", "e", "d", "o", "-", "3", "9", "5", "3", "8", "7",
                 "1", "9", "b", "/">>],
    [line |-> 201, tag |-> "a", id |-> "",
     class |-> "fa fa-github fa-inverse",
     text |-> "",
     href |-> <<"h", "t", "t", "p", "s", ":", "/", "/", "g", "i", "t", "h",
                 "u", "b", ".", "c", "o", "m", "/", "k", "o", "k", "i", "n",
                 "e", "d", "o">>],
    [line |-> 212, tag |-> "a", id |-> "",
     class |-> "",
     text |-> "Kevin Okinedo",
     href |-> <<>>] >>

TemplateHtml ==
    HeadSection \o HeroSection \o AboutSection \o ProjectsSection
        \o ContactSection \o FooterSection

\* the text a sequence of characters spells, put together by halves
RECURSIVE Join(_)
Join(cs) ==
    IF cs = <<>> THEN ""
    ELSE IF Len(cs) = 1 THEN cs[1]
    ELSE Join(SubSeq(cs, 1, Len(cs) \div 2))
            \o Join(SubSeq(cs, (Len(cs) \div 2) + 1, Len(cs)))

\* the links of the document: a elements that have an href
Links(doc) == {k \in 1..Len(doc) : doc[k].tag = "a" /\ doc[k].href # <<>>}

\* an href of the form '#id' points into the page
IsFragmentLink(h) == Len(h) > 1 /\ h[1] = "#"

\* the id an in-page href names
Fragment(h) == Join(Tail(h))

\* the elements of the document that carry the id
ElementsWithId(doc, id) == {k \in 1..Len(doc) : doc[k].id = id}

\* the element the browser scrolls to for a fragment: the first element with
\* that id in document order, 0 when the document has none
FindTarget(doc, frag) ==
    IF ElementsWithId(doc, frag) = {} THEN 0
    ELSE CHOOSE k \in ElementsWithId(doc, frag) :
            \A j \in ElementsWithId(doc, frag) : k <= j

\* the visitor follows a link that points into the page
FollowLink ==
    /\ \E k \in Links(TemplateHtml) :
        /\ IsFragmentLink(TemplateHtml[k].href)
        /\ hash' = Fragment(TemplateHtml[k].href)
        /\ scrolledTo' = FindTarget(TemplateHtml, Fragment(TemplateHtml[k].href))
    /\ UNCHANGED <<registry, lastRead, pc, pending, posts, result, a, b, cmp, dir,
                   socialView, aboutView, calVars>>

\* the visitor opens a link that leaves the page (target="_blank"): the
\* browser is given the href, the page stays as it is
OpenLink ==
    /\ \E k \in Links(TemplateHtml) :
        /\ ~IsFragmentLink(TemplateHtml[k].href)
        /\ lastRead' = [section |-> "template", field |-> "href", index |-> k,
                        value |-> Join(TemplateHtml[k].href)]
    /\ UNCHANGED <<registry, pc, pending, posts, result, a, b, cmp, dir,
                   socialView, aboutView, calVars, docVars>>

\* the visitor reads a text the page displays
ReadText ==
    /\ \E k \in 1..Len(TemplateHtml) :
        /\ TemplateHtml[k].text # ""
        /\ lastRead' = [section |-> "template", field |-> "text", index |-> k,
                        value |-> TemplateHtml[k].text]
    /\ UNCHANGED <<registry, pc, pending, posts, result, a, b, cmp, dir,
                   socialView, aboutView, calVars, docVars>>

InitTemplate == Init

\* the page is browsed while the site's templates read person and social
NextTemplate ==
    \/ FollowLink
    \/ OpenLink
    \/ ReadText
    \/ ReadPerson
    \/ ReadSocial

SpecTemplate == InitTemplate /\ [][NextTemplate]_vars

-----------------------------------------------------------------------------
(* Properties.                                                             *)

Day(p) == DateValue(PublishedAt(p))

\* C1: the listing is ordered by publishedAt, newest first: of two posts of
\* the listing, the one with the later date stands before the other.
C1_NewestFirst ==
    pc = "sorted" =>
        \A i \in 1..Len(result) : \A j \in 1..Len(result) :
            Day(result[i]) > Day(result[j]) => i < j

C1_Witness ==
    /\ pc = "sorted"
    /\ Len(result) = Cardinality(PostDir)
    /\ \E i \in 1..Len(result) : \E j \in 1..Len(result) :
        /\ i < j
        /\ PublishedAt(result[i]) = <<"2", "0", "2", "5", "-", "0", "2", "-", "0", "2">>
        /\ PublishedAt(result[j]) = <<"2", "0", "2", "5", "-", "0", "1", "-", "1", "5">>

\* C2: the publishedAt of the leading front-matter of every post file read
\* has the form YYYY-MM-DD and names a day of the calendar.
C2_ValidDates ==
    \A i \in 1..Len(posts) : IsValidCalendarDate(PublishedAt(posts[i]))

C2_Witness ==
    /\ pc = "reading"
    /\ pending = {}
    /\ Len(posts) = Cardinality(PostDir)

\* C3: two publishedAt values of the form YYYY-MM-DD compare as strings the
\* way they compare as calendar dates, and the collection sorted by the string
\* is the collection sorted by the date.
C3_LexMatchesChrono ==
    /\ (cmp.done /\ IsIsoForm(a) /\ IsIsoForm(b)) => (cmp.lex <=> cmp.chrono)
    /\ pc = "sorted" => posts = result

C3_Witness ==
    /\ pc = "sorted"
    /\ Len(posts) = Cardinality(PostDir)
    /\ cmp.done
    /\ cmp.lex
    /\ a = IsoDate(BaseYear, 9, 30)
    /\ b = IsoDate(BaseYear, 10, 1)

\* C4: sorting a listing that is already sorted returns the same sequence.
C4_SortIdempotent == [][SortAgain => result' = result]_vars

C4_Witness ==
    /\ pc = "resorted"
    /\ \E i \in 1..Len(result) : \E j \in 1..Len(result) :
        /\ i < j
        /\ PublishedAt(result[i]) = PublishedAt(result[j])
        /\ result[i].slug # result[j].slug

\* C5: the leading front-matter of every post file read supplies title,
\* summary and publishedAt, and title and summary are not empty; no file makes
\* the listing fail for want of one of them.
C5_RequiredKeys ==
    /\ pc # "error"
    /\ \A i \in 1..Len(posts) :
        /\ RequiredKeys \subseteq DOMAIN posts[i].metadata
        /\ posts[i].metadata.title # ""
        /\ posts[i].metadata.summary # ""

C5_Witness ==
    /\ pc = "sorted"
    /\ Len(posts) = Cardinality(PostDir)
    /\ \E i \in 1..Len(posts) : posts[i].slug = "design.mdx"

\* C6: a read of person.name gives firstName, a space and lastName as they
\* are at the time of the read, also after either has been assigned.
C6_NameGetter ==
    (lastRead.section = "person" /\ lastRead.field = "name") =>
        lastRead.value = registry.person.firstName \o " " \o registry.person.lastName

C6_Witness ==
    /\ lastRead.section = "person"
    /\ lastRead.field = "name"
    /\ lastRead.value = "Ada Lovelace"
    /\ registry.home.title = "Kevin Okinedo's Portfolio"

\* C7: every entry of the social list has a name and an icon that are not
\* empty.
C7_SocialNamed ==
    \A i \in 1..Len(registry.social) :
        /\ registry.social[i].name # ""
        /\ registry.social[i].icon # ""

C7_Witness ==
    /\ lastRead.section = "social"
    /\ lastRead.field = "icon"
    /\ lastRead.index = 3
    /\ registry.social[3].link = ""

\* C8: no step changes the registry: every field of every exported object
\* keeps the value it had when the module was loaded.
C8_RegistryImmutable == [][registry' = registry]_vars

C8_Witness ==
    /\ pc = "sorted"
    /\ lastRead.section = "person"
    /\ lastRead.field = "name"
    /\ lastRead.value = "Kevin Okinedo"

\* the first delimiter after line 1, 0 when line 1 opens no block
ClosingLine(lines) ==
    IF Len(lines) = 0 \/ lines[1].kind # "delim" \/ ~\E k \in 2..Len(lines) : lines[k].kind = "delim"
    THEN 0
    ELSE CHOOSE k \in 2..Len(lines) :
            /\ lines[k].kind = "delim"
            /\ \A h \in 2..(k - 1) : lines[h].kind # "delim"

\* the lines of the leading block that carry the key k
LeadingLines(lines, k) ==
    {h \in 2..(ClosingLine(lines) - 1) : lines[h].kind = "kv" /\ lines[h].key = k}

\* C9: every file read yields one BlogPost and none fails; its fields are those of the block
\* at the very start of the file and no others, everything after that block
\* is body, and a later block of the body neither adds a post nor changes a
\* field (quick-start.mdx keeps its own title and date, blog.mdx gets no key
\* from the manifests it quotes).
C9_LeadingBlockOnly ==
    /\ pc # "error"
    /\ pc = "reading" => Len(posts) + Cardinality(pending) = Cardinality(PostDir)
    /\ pc = "sorted" => Len(posts) = Cardinality(PostDir)
    /\ \A i \in 1..Len(posts) : \A j \in 1..Len(posts) :
        posts[i].slug = posts[j].slug => i = j
    /\ \A i \in 1..Len(posts) :
        LET lines == FileLines(posts[i].slug)
            data == posts[i].metadata
        IN /\ \A k \in DOMAIN data :
                /\ LeadingLines(lines, k) # {}
                /\ \E h \in LeadingLines(lines, k) : lines[h].value = data[k]
           /\ \A h \in 2..(ClosingLine(lines) - 1) :
                lines[h].kind = "kv" => lines[h].key \in DOMAIN data
           /\ Len(posts[i].content) = Len(lines) - ClosingLine(lines)
    /\ \A i \in 1..Len(posts) :
        /\ posts[i].slug = "quick-start.mdx" =>
            /\ PublishedAt(posts[i]) = <<"2", "0", "2", "5", "-", "0", "1", "-", "1", "5">>
            /\ "title" \in DOMAIN posts[i].metadata
            /\ posts[i].metadata.title = "AI Engineering Best Practices: From Research to Production"
        /\ posts[i].slug = "blog.mdx" =>
            DOMAIN posts[i].metadata = {"title", "summary", "publishedAt", "tag"}

C9_Witness ==
    /\ pc = "sorted"
    /\ \E i \in 1..Len(posts) :
        /\ posts[i].slug = "quick-start.mdx"
        /\ \E h \in 1..Len(posts[i].content) :
            /\ posts[i].content[h].kind = "kv"
            /\ posts[i].content[h].key = "publishedAt"
    /\ \E i \in 1..Len(posts) :
        /\ posts[i].slug = "blog.mdx"
        /\ \E h \in 1..Len(posts[i].content) : posts[i].content[h].kind = "delim"

RecognizedKeys == {"title", "summary", "publishedAt", "tag", "image"}

\* C10: every post file read opens its front-matter on line 1, carries no
\* key outside title, summary, publishedAt, tag and image, and lacks none of
\* them except possibly image.
C10_RecognizedKeys ==
    \A i \in 1..Len(posts) :
        /\ FileLines(posts[i].slug)[1].kind = "delim"
        /\ DOMAIN posts[i].metadata \subseteq RecognizedKeys
        /\ (RecognizedKeys \ {"image"}) \subseteq DOMAIN posts[i].metadata

C10_Witness ==
    /\ pc = "sorted"
    /\ \E i \in 1..Len(posts) : "image" \in DOMAIN posts[i].metadata
    /\ \E i \in 1..Len(posts) : "image" \notin DOMAIN posts[i].metadata


\* the sections that have a page
PageSections == {"home", "about", "blog", "work", "gallery"}

\* C11: the registry a template reads is whole: it holds each exported object,
\* one page record for each of home, about, blog, work and gallery, each with
\* a path, label, title and description that are not empty, and what a read
\* of a page returned is the value the registry holds.
C11_FullyPopulated ==
    /\ DOMAIN registry = Sections
    /\ \A s \in PageSections :
        /\ {"path", "label", "title", "description"} \subseteq DOMAIN registry[s]
        /\ registry[s].path # ""
        /\ registry[s].label # ""
        /\ registry[s].title # ""
        /\ registry[s].description # ""
    /\ lastRead.section \in PageSections =>
        /\ lastRead.value = registry[lastRead.section][lastRead.field]
        /\ lastRead.value # ""

C11_Witness ==
    /\ lastRead.section = "blog"
    /\ lastRead.field = "description"
    /\ lastRead.value = "Read what Kevin Okinedo has been up to recently"


\* the leading block of the file f carries every required key
FileComplete(f) == \A k \in RequiredKeys : LeadingLines(FileLines(f), k) # {}

\* C12: a listing of a directory that holds a file without title, summary or
\* publishedAt in its front-matter does not come to a result: it ends in the
\* error outcome, and no record of a returned listing lacks a required field
\* or has it blank.
C12_MissingKeyFails ==
    /\ pc = "sorted" => \A f \in dir : FileComplete(f)
    /\ pc = "reading" => \A f \in dir \ pending : FileComplete(f)
    /\ \A i \in 1..Len(result) :
        /\ RequiredKeys \subseteq DOMAIN result[i].metadata
        /\ result[i].metadata.title # ""
        /\ result[i].metadata.summary # ""
        /\ result[i].metadata.publishedAt # <<>>

C12_Witness ==
    /\ pc = "error"
    /\ "draft-no-summary.mdx" \in dir
    /\ "design.mdx" \in dir
    /\ result = <<>>

\* C15: the listing is a permutation of the directory: every file appears in
\* it once, as the record read from that file, and it holds nothing else;
\* while the files are read, those read and those to come make up the
\* directory.
C15_Permutation ==
    /\ pc = "sorted" =>
        /\ Len(result) = Cardinality(dir)
        /\ {result[i].slug : i \in 1..Len(result)} = dir
        /\ \A i \in 1..Len(result) : result[i] = ReadMDXFile(result[i].slug)
    /\ pc = "reading" =>
        /\ {posts[i].slug : i \in 1..Len(posts)} \cup pending = dir
        /\ Len(posts) + Cardinality(pending) = Cardinality(dir)

C15_Witness ==
    /\ pc = "sorted"
    /\ dir = {"design.mdx", "copy-of-design.mdx", "work.mdx"}
    /\ Len(result) = 3

\* C16: the leading publishedAt values of the post files differ from one
\* another, and the listing is the same whatever the order the files were
\* read in and whichever way the dates were compared.
C16_OrderIndependent ==
    /\ \A i \in 1..Len(posts) : \A j \in 1..Len(posts) :
        i # j => PublishedAt(posts[i]) # PublishedAt(posts[j])
    /\ pc = "sorted" =>
        /\ result = SortDesc(CollectionInOrder, "date")
        /\ \A i \in 1..(Len(result) - 1) : Day(result[i]) > Day(result[i + 1])

C16_Witness ==
    /\ pc = "sorted"
    /\ Len(result) = Cardinality(PostDir)
    /\ result[1].slug = "design.mdx"
    /\ result[2].slug = "part_001"
    /\ result[3].slug = "part_002"


\* the words of s, those that a space separates
RECURSIVE WordsFrom(_, _, _, _)
WordsFrom(s, i, cur, acc) ==
    IF i > Len(s) THEN Append(acc, cur)
    ELSE IF s[i] = " " THEN WordsFrom(s, i + 1, <<>>, Append(acc, cur))
    ELSE WordsFrom(s, i + 1, Append(cur, s[i]), acc)

Words(s) == WordsFrom(s, 1, <<>>, <<>>)

MonthNames == <<<<"J", "a", "n">>, <<"F", "e", "b">>, <<"M", "a", "r">>, <<"A", "p", "r">>, <<"M", "a", "y">>, <<"J", "u", "n">>, <<"J", "u", "l">>, <<"A", "u", "g">>, <<"S", "e", "p">>, <<"O", "c", "t">>, <<"N", "o", "v">>, <<"D", "e", "c">>>>

IsMonthName(w) == \E m \in 1..12 : MonthNames[m] = w

MonthOf(w) == CHOOSE m \in 1..12 : MonthNames[m] = w

\* months counted from year 0; Present lies after every month that is named
MonthCount(y, m) == 12 * y + m

PresentMonth == MonthCount(10000, 1)

IsMonthYear(w, i) == IsMonthName(w[i]) /\ IsNumeral(w[i + 1])

MonthYear(w, i) == MonthCount(NumeralVal(w[i + 1]), MonthOf(w[i]))

\* first and last month of a timeframe "Mon YYYY - Mon YYYY" or
\* "Mon YYYY - Present"
TimeframeOfWords(w) ==
    IF Len(w) = 5 /\ IsMonthYear(w, 1) /\ w[3] = <<"-">> /\ IsMonthYear(w, 4)
    THEN [ok |-> TRUE, start |-> MonthYear(w, 1), end |-> MonthYear(w, 4)]
    ELSE IF Len(w) = 4 /\ IsMonthYear(w, 1) /\ w[3] = <<"-">> /\ w[4] = <<"P", "r", "e", "s", "e", "n", "t">>
    THEN [ok |-> TRUE, start |-> MonthYear(w, 1), end |-> PresentMonth]
    ELSE [ok |-> FALSE, start |-> 0, end |-> 0]

Timeframe(s) == TimeframeOfWords(Words(s))

\* the timeframe cur starts after nxt starts and not before nxt ends
ListedNewerFirst(cur, nxt) ==
    /\ cur.ok
    /\ nxt.ok
    /\ cur.start > nxt.start
    /\ cur.start >= nxt.end

\* C13: the work experiences are listed newest first: of two neighbours the
\* one listed first starts later than the other starts and not before the
\* other ends.
C13_ReverseChronological ==
    \A i \in 1..(Len(registry.about.work.experiences) - 1) :
        ListedNewerFirst(Timeframe(registry.about.work.experiences[i].timeframe),
                         Timeframe(registry.about.work.experiences[i + 1].timeframe))

C13_Witness ==
    /\ lastRead.section = "about.work.experiences"
    /\ lastRead.field = "timeframe"
    /\ lastRead.index = 2
    /\ Timeframe(lastRead.value).ok
    /\ Timeframe(lastRead.value).start = MonthCount(2021, 8)
    /\ Timeframe(lastRead.value).end = MonthCount(2023, 5)
    /\ Len(registry.about.work.experiences) = 5


\* the social entries whose link is empty
EmptyLinked == {i \in 1..Len(registry.social) : registry.social[i].link = ""}

\* the rendered links that stand for the i-th social entry
ItemsOf(i) ==
    {k \in 1..Len(socialView.items) : socialView.items[k].name = registry.social[i].name}

\* C14: a render treats all social entries with an empty link alike, leaving
\* all of them out or showing all of them disabled, shows none of them as an
\* active link and shows every entry that has a link as an active link to it;
\* in the registry X is the one entry whose link is empty.
C14_EmptyLinks ==
    /\ \A i \in 1..Len(registry.social) :
        registry.social[i].link = "" <=> registry.social[i].name = "X"
    /\ socialView.rendered =>
        /\ \/ \A i \in EmptyLinked : ItemsOf(i) = {}
           \/ \A i \in EmptyLinked :
                /\ ItemsOf(i) # {}
                /\ \A k \in ItemsOf(i) : socialView.items[k].state = "disabled"
        /\ \A k \in 1..Len(socialView.items) :
            socialView.items[k].state = "active" => socialView.items[k].href # ""
        /\ \A i \in 1..Len(registry.social) :
            registry.social[i].link # "" =>
                \E k \in ItemsOf(i) :
                    /\ socialView.items[k].state = "active"
                    /\ socialView.items[k].href = registry.social[i].link

C14_Witness ==
    /\ socialView.rendered
    /\ socialView.policy = "disable"
    /\ Len(socialView.items) = 4
    /\ socialView.items[3].name = "X"
    /\ socialView.items[3].state = "disabled"

\* C18: the link of the social entry named Email is "mailto:" followed by
\* the email of person.
C18_EmailLink ==
    /\ \E i \in 1..Len(registry.social) : registry.social[i].name = "Email"
    /\ \A i \in 1..Len(registry.social) :
        registry.social[i].name = "Email" =>
            registry.social[i].link = "mailto:" \o registry.person.email

C18_Witness ==
    /\ lastRead.section = "social"
    /\ lastRead.field = "link"
    /\ lastRead.index = 4
    /\ lastRead.value = "mailto:kokinedo@gmail.com"
    /\ registry.person.email = "kokinedo@gmail.com"


\* the display name of person as a read of the getter gives it now
CurrentName == registry.person.firstName \o " " \o registry.person.lastName

\* C17: the page strings built from person agree with person as it is now:
\* home.title is the name followed by "'s Portfolio"; blog.description,
\* work.title, work.description, gallery.title and gallery.description hold
\* the name (between their fixed words); about.description holds the name,
\* the role and the location.
C17_DerivedStrings ==
    /\ registry.home.title = CurrentName \o "'s Portfolio"
    /\ registry.blog.description = "Read what " \o CurrentName \o " has been up to recently"
    /\ registry.work.title = "Projects -- " \o CurrentName
    /\ registry.work.description = "Design and dev projects by " \o CurrentName
    /\ registry.gallery.title = "Photo gallery -- " \o CurrentName
    /\ registry.gallery.description = "A photo collection by " \o CurrentName
    /\ registry.about.description =
          "Meet " \o CurrentName \o ", " \o registry.person.role
                  \o " from " \o registry.person.location

C17_Witness ==
    /\ lastRead.section = "blog"
    /\ lastRead.field = "description"
    /\ lastRead.value = "Read what Kevin Okinedo has been up to recently"
    /\ CurrentName = "Kevin Okinedo"

\* C20: the five page records have pairwise distinct paths and pairwise
\* distinct labels.
C20_DistinctPages ==
    \A s, t \in PageSections :
        s # t => /\ registry[s].path # registry[t].path
                 /\ registry[s].label # registry[t].label

C20_Witness ==
    /\ lastRead.section = "work"
    /\ lastRead.field = "path"
    /\ lastRead.value = "/work"
    /\ registry.blog.path = "/blog"


\* the About sections the owner may hide
OptionalSections == {"work", "studies", "technical"}

\* C19: a rendered About page shows each of work, studies and technical
\* exactly when its own display flag is true, so turning one flag off hides
\* that section and leaves the visibility of the others as their flags say.
C19_DisplayFlags ==
    aboutView.rendered =>
        \A s \in OptionalSections :
            s \in aboutView.shown <=> registry.about[s].display

C19_Witness ==
    /\ aboutView.rendered
    /\ ~registry.about.work.display
    /\ registry.about.studies.display
    /\ registry.about.technical.display
    /\ "work" \notin aboutView.shown
    /\ {"studies", "technical", "intro"} \subseteq aboutView.shown


\* C25: every entry of the work experience and every entry of the technical
\* skills has an empty list of images.
C25_NoImages ==
    /\ \A i \in 1..Len(registry.about.work.experiences) :
        registry.about.work.experiences[i].images = <<>>
    /\ \A i \in 1..Len(registry.about.technical.skills) :
        registry.about.technical.skills[i].images = <<>>

C25_Witness ==
    /\ lastRead.section = "about.technical.skills"
    /\ lastRead.field = "images"
    /\ lastRead.index = 1
    /\ lastRead.value = <<>>
    /\ Len(registry.about.work.experiences) = 5
    /\ Len(registry.about.technical.skills) = 4


\* the most getCalApi calls a run of the component model can hold
MaxCalls == MaxMounts * MaxRenders

\* C21: cal("ui", ...) is called only by a getCalApi call whose promise has
\* resolved (never while it is pending, never after it rejected), at most
\* once by each call, and by at most one call of each mount however often
\* the component renders again.
C21_UiOncePerMount ==
    /\ \A k \in 1..Len(calls) :
        /\ Len(calls[k].ui) <= 1
        /\ calls[k].ui # <<>> => calls[k].promise = "resolved" /\ calls[k].at = "end"
        /\ calls[k].promise \in {"pending", "rejected"} => calls[k].ui = <<>>
        /\ calls[k].mount \in 1..mountCount
    /\ \A j, k \in 1..Len(calls) :
        (j # k /\ calls[j].mount = calls[k].mount) =>
            (calls[j].ui = <<>> \/ calls[k].ui = <<>>)

C21_Witness ==
    /\ mounted
    /\ mountCount = 2
    /\ renderCount >= 2
    /\ Len(calls) = 2
    /\ calls[1].promise = "rejected"
    /\ calls[1].at = "threw"
    /\ calls[1].ui = <<>>
    /\ calls[2].promise = "resolved"
    /\ Len(calls[2].ui) = 1

\* C22: unmounting the component leaves the getCalApi calls as they are, a
\* pending one stays pending, and a call whose promise has resolved goes on
\* to call cal("ui", ...) whether or not the component is still mounted.
C22_NoCleanup ==
    /\ [][(mounted /\ ~mounted') => calls' = calls]_vars
    /\ \A k \in 1..MaxCalls :
        (k <= Len(calls) /\ calls[k].promise = "resolved")
            ~> (k <= Len(calls) /\ Len(calls[k].ui) = 1)

C22_Witness ==
    /\ ~mounted
    /\ \E k \in 1..Len(calls) :
        /\ calls[k].mount = mountCount
        /\ calls[k].promise = "resolved"
        /\ ~calls[k].settledLive
        /\ Len(calls[k].ui) = 1
        /\ ~calls[k].ui[1].live

\* C23: the namespace every getCalApi call is given is the element's
\* data-cal-namespace, and the element's data-cal-link is what follows
\* "https://cal.com/" in about.calendar.link.
C23_CalendarIdentifiers ==
    /\ GetCalApiOptions.namespace = CalendarButtonElement.dataCalNamespace
    /\ \A k \in 1..Len(calls) :
        calls[k].namespace = CalendarButtonElement.dataCalNamespace
    /\ "https://cal.com/" \o CalendarButtonElement.dataCalLink
          = registry.about.calendar.link

C23_Witness ==
    /\ mounted
    /\ Len(calls) = 1
    /\ calls[1].namespace = "30min"
    /\ CalendarButtonElement.dataCalLink = "kevinokinedo/30min"
    /\ registry.about.calendar.link = "https://cal.com/kevinokinedo/30min"


\* the elements of the template that display the owner's name: the title of
\* the document, the highlighted words of the hero, the credit of the footer
NameElements ==
    {k \in 1..Len(TemplateHtml) :
        \/ TemplateHtml[k].tag = "title"
        \/ TemplateHtml[k].tag = "span" /\ TemplateHtml[k].class = "text-color-main"
        \/ TemplateHtml[k].tag = "a" /\ TemplateHtml[k].href = <<>>
              /\ TemplateHtml[k].class = ""}

\* the links of the template whose class is c or whose text is t
LinksOfClass(c) == {k \in Links(TemplateHtml) : TemplateHtml[k].class = c}

LinksOfText(t) == {k \in Links(TemplateHtml) : TemplateHtml[k].text = t}

\* the entries of the registry's social list with the given name
SocialNamed(n) == {i \in 1..Len(registry.social) : registry.social[i].name = n}

\* C24: the plain-HTML template shows the identity the registry holds: the
\* name it displays is person.name, its Contact Me link is "mailto:" and
\* person.email, and its GitHub and LinkedIn links are the links of the
\* registry's GitHub and LinkedIn social entries.
C24_TemplateIdentity ==
    /\ NameElements # {}
    /\ \A k \in NameElements : TemplateHtml[k].text = name(registry.person)
    /\ LinksOfText("Contact Me") # {}
    /\ \A k \in LinksOfText("Contact Me") :
        Join(TemplateHtml[k].href) = "mailto:" \o registry.person.email
    /\ LinksOfClass("fa fa-github fa-inverse") # {}
    /\ SocialNamed("GitHub") # {}
    /\ \A k \in LinksOfClass("fa fa-github fa-inverse"), i \in SocialNamed("GitHub") :
        Join(TemplateHtml[k].href) = registry.social[i].link
    /\ LinksOfClass("fa fa-linkedin fa-inverse") # {}
    /\ SocialNamed("LinkedIn") # {}
    /\ \A k \in LinksOfClass("fa fa-linkedin fa-inverse"), i \in SocialNamed("LinkedIn") :
        Join(TemplateHtml[k].href) = registry.social[i].link

C24_Witness ==
    /\ lastRead.section = "template"
    /\ lastRead.field = "href"
    /\ lastRead.index \in LinksOfText("Contact Me")
    /\ lastRead.value = "mailto:kokinedo@gmail.com"
    /\ registry.person.email = "kokinedo@gmail.com"

\* the links of the template that point into the page
FragmentLinks == {k \in Links(TemplateHtml) : IsFragmentLink(TemplateHtml[k].href)}

\* C26: every link of the template that points into the page names an id
\* that exactly one element carries; these links are Know More, to about,
\* and back-to-top, to top; following one lands on the element of that id.
C26_InPageLinksResolve ==
    /\ \A k \in FragmentLinks :
        Cardinality(ElementsWithId(TemplateHtml, Fragment(TemplateHtml[k].href))) = 1
    /\ {Fragment(TemplateHtml[k].href) : k \in FragmentLinks} = {"about", "top"}
    /\ hash # "" =>
        /\ scrolledTo \in 1..Len(TemplateHtml)
        /\ ElementsWithId(TemplateHtml, hash) = {scrolledTo}

C26_Witness ==
    /\ hash = "about"
    /\ scrolledTo \in 1..Len(TemplateHtml)
    /\ TemplateHtml[scrolledTo].tag = "section"
    /\ TemplateHtml[scrolledTo].id = "about"

====
